---- MODULE Spec2Model ----
(***************************************************************************)
(* Model of client/main.go: the DNSClient query pipeline (static           *)
(* overrides, answer cache with lazy TTL expiry, suffix routing, upstream   *)
(* call) as a set of goroutines calling Query on one shared DNSClient.      *)
(*                                                                          *)
(* Domain names are sequences of tokens, a label or the separator ".":     *)
(* "example.com." is <<"example", ".", "com", ".">>.  Time is counted in    *)
(* ticks, TicksPerSecond of them to a second, so that a sub-second          *)
(* remainder exists and math.Ceil has something to round.                   *)
(***************************************************************************)
EXTENDS Integers, Sequences, FiniteSets, TLC

VARIABLES
    now,         \* the clock read by time.Now(), in ticks
    cache,       \* DNSClient.cache: cache key -> dnsCached
    heap,        \* backing arrays of the []Answer slices: address -> answers
    staticIpV4,  \* DNSClient.staticIpV4
    staticIpV6,  \* DNSClient.staticIpV6
    router,      \* DNSClient.router: registered domain -> upstream handle
    pc,          \* position of each goroutine inside Query
    loc,         \* local variables of each goroutine's running call
    res,         \* what each goroutine's last finished Query returned
    calls,       \* number of Query calls each goroutine has started
    hist         \* history: per key, what the calls so far did to its entry

vars == <<now, cache, heap, staticIpV4, staticIpV6, router, pc, loc, res, calls, hist>>

----
\* Bounds of the model.

TicksPerSecond == 2
MaxTime == 5
MaxTTL == 2
MaxAnswers == 2
MaxCalls == 2
RouteMaxAnswers == 1
RouteTTL == 1
ConcMaxTime == 2
ConcCalls == 3
LiveCalls == 2

\* Program constants.

TypeA == 1
TypeAAAA == 28
TypeMX == 15
StaticTTL == 60

SeqProcs == {"g1"}
ConcProcs == {"g1", "g2"}
Procs == SeqProcs \union ConcProcs

None == "none"

----
\* Finite maps (Go maps, sync.Map).

Put(m, k, v) == [x \in (DOMAIN m) \union {k} |-> IF x = k THEN v ELSE m[x]]

\* Faulty variant: the whole map is cleared.
RemoveAll(m, k) == [x \in {} |-> m[x]]

Remove(m, k) == [x \in (DOMAIN m) \ {k} |-> m[x]]

EmptyMap == [x \in {} |-> None]

----
\* Domain names.

Dot == "."

\* dns.Fqdn: append the trailing dot when it is missing.
Fqdn(s) == IF Len(s) > 0 /\ s[Len(s)] = Dot THEN s ELSE s \o <<Dot>>

ExampleCom == <<"example", Dot, "com">>
ExampleComFq == <<"example", Dot, "com", Dot>>
MailExampleComFq == <<"mail", Dot, "example", Dot, "com", Dot>>
XMailExampleComFq == <<"x", Dot, "mail", Dot, "example", Dot, "com", Dot>>
V4ExampleCom == <<"v4", Dot, "example", Dot, "com">>
V6OtherComFq == <<"v6", Dot, "other", Dot, "com", Dot>>
OtherCom == <<"other", Dot, "com">>
OtherComFq == <<"other", Dot, "com", Dot>>
ExampleComUpper == <<"EXAMPLE", Dot, "com">>

UdpClient == [kind |-> "udp", target |-> "8.8.8.8:53"]
DohClient == [kind |-> "doh", target |-> "https://doh.example/dns-query"]

\* The configuration handed to DNSClient.Init: forward.DNS already parsed
\* into scheme and host, forward.Domain as written in the configuration.
Forwards == <<
    [Scheme |-> "ipv4", Host |-> "10.0.0.1", Domain |-> <<V4ExampleCom>>],
    [Scheme |-> "ipv6", Host |-> "fd00::1", Domain |-> <<V6OtherComFq>>],
    [Scheme |-> "udp", Host |-> "8.8.8.8:53", Domain |-> <<ExampleCom, ExampleComUpper>>],
    [Scheme |-> "doh", Host |-> "doh.example/dns-query", Domain |-> <<MailExampleComFq>>],
    [Scheme |-> "tcp", Host |-> "9.9.9.9:53", Domain |-> <<OtherCom>>]
>>

\* A nil dnsClient.
NoClient == [kind |-> "none", target |-> ""]

\* dnsRouter.add: a map keyed by domain, the last registration wins.
RouterAdd(r, domain, cli) == Put(r, domain, cli)

\* The parent domain: the name without its leftmost label.
Parent(d) == SubSeq(d, 3, Len(d))

\* dnsRouter.route: walk from the full domain up through the parent domains
\* until a registered domain is found or the root is reached.
RECURSIVE Route(_, _)
Route(r, d) ==
    IF d \in DOMAIN r THEN r[d]
    ELSE IF Len(d) <= 2 THEN NoClient
    ELSE Route(r, Parent(d))

\* for _, domain := range forward.Domain { m[dns.Fqdn(domain)] = v }
RECURSIVE AddStatic(_, _, _)
AddStatic(m, domains, host) ==
    IF domains = <<>> THEN m
    ELSE AddStatic(Put(m, Fqdn(Head(domains)), host), Tail(domains), host)

\* Faulty variant: the domains registered as written, without dns.Fqdn.
RECURSIVE AddRoutesRaw(_, _, _)
AddRoutesRaw(r, domains, cli) ==
    IF domains = <<>> THEN r
    ELSE AddRoutesRaw(RouterAdd(r, Head(domains), cli), Tail(domains), cli)

\* for _, domain := range forward.Domain { c.router.add(dns.Fqdn(domain), cli) }
RECURSIVE AddRoutes(_, _, _)
AddRoutes(r, domains, cli) ==
    IF domains = <<>> THEN r
    ELSE AddRoutes(RouterAdd(r, Fqdn(Head(domains)), cli), Tail(domains), cli)

\* GetUDPClient / GetDoHClient: the handle built for a forward.
ClientOf(f) ==
    IF f.Scheme = "udp" THEN [kind |-> "udp", target |-> f.Host]
    ELSE [kind |-> "doh", target |-> "https://" \o f.Host]

\* DNSClient.Init: one pass over the forwards, by scheme.
RECURSIVE InitClient(_, _)
InitClient(c, forwards) ==
    IF forwards = <<>> THEN c
    ELSE LET f == Head(forwards)
             c2 == CASE f.Scheme = "ipv4" ->
                          [c EXCEPT !.staticIpV4 = AddStatic(@, f.Domain, f.Host)]
                     [] f.Scheme = "ipv6" ->
                          [c EXCEPT !.staticIpV6 = AddStatic(@, f.Domain, f.Host)]
                     [] f.Scheme \in {"udp", "doh"} ->
                          [c EXCEPT !.router = AddRoutes(@, f.Domain, ClientOf(f))]
                     [] OTHER -> c
         IN  InitClient(c2, Tail(forwards))

ZeroClient == [staticIpV4 |-> EmptyMap, staticIpV6 |-> EmptyMap, router |-> EmptyMap]

----
\* The static override tables, the cache key, the cache arithmetic.

NotFound == [found |-> FALSE, ip |-> ""]

\* Faulty variant: the two tables taken for each other.
StaticLookupSwapped(v4, v6, name, qtype) ==
    IF qtype = TypeA
    THEN IF name \in DOMAIN v6 THEN [found |-> TRUE, ip |-> v6[name]] ELSE NotFound
    ELSE IF qtype = TypeAAAA
    THEN IF name \in DOMAIN v4 THEN [found |-> TRUE, ip |-> v4[name]] ELSE NotFound
    ELSE NotFound

\* Faulty variant: the record type not looked at.
StaticLookupAnyType(v4, v6, name, qtype) ==
    IF name \in DOMAIN v4 THEN [found |-> TRUE, ip |-> v4[name]]
    ELSE IF name \in DOMAIN v6 THEN [found |-> TRUE, ip |-> v6[name]]
    ELSE NotFound

\* Query, "from staticIp": the IPv4 table for A, the IPv6 table for AAAA.
StaticLookup(v4, v6, name, qtype) ==
    IF qtype = TypeA
    THEN IF name \in DOMAIN v4 THEN [found |-> TRUE, ip |-> v4[name]] ELSE NotFound
    ELSE IF qtype = TypeAAAA
    THEN IF name \in DOMAIN v6 THEN [found |-> TRUE, ip |-> v6[name]] ELSE NotFound
    ELSE NotFound

\* []Answer{{Name: name, Type: qtype, TTL: 60, Data: staticIp}}
StaticAnswer(name, qtype, ip) ==
    <<[Name |-> name, Type |-> qtype, TTL |-> StaticTTL, Data |-> ip]>>

\* cacheKey := name + "|" + strconv.Itoa(int(qtype))
\* Faulty variant: the record type left out of the key.
CacheKeyNameOnly(name, qtype) == name \o <<"|">>

CacheKey(name, qtype) == name \o <<"|", ToString(qtype)>>

\* Faulty variant: no early return.
CacheSetSkipsNothing(answer) == FALSE

\* cacheSet: if len(answer) == 0 { return }
CacheSetSkips(answer) == Len(answer) = 0

\* cacheSet: minTTL := answer[0].TTL; for ... if ans.TTL < minTTL { minTTL = ans.TTL }
RECURSIVE MinTTLFrom(_, _, _)
MinTTLFrom(answer, i, minTTL) ==
    IF i > Len(answer) THEN minTTL
    ELSE MinTTLFrom(answer, i + 1,
                    IF answer[i].TTL < minTTL THEN answer[i].TTL ELSE minTTL)

\* Faulty variant: the first answer's ttl, the loop left out.
MinTTLFirst(answer) == answer[1].TTL

MinTTL(answer) == MinTTLFrom(answer, 1, answer[1].TTL)

\* Faulty variant: the ttl added in clock units, not in seconds.
ExpiryUnscaled(t, minTTL) == t + minTTL

\* time.Now().Add(time.Duration(minTTL) * time.Second)
Expiry(t, minTTL) == t + minTTL * TicksPerSecond

\* Faulty variant: rounding down.
RemainingTTLFloor(expired, t) == (expired - t) \div TicksPerSecond

\* int(math.Ceil(cached.expired.Sub(time.Now()).Seconds()))
RemainingTTL(expired, t) == -((t - expired) \div TicksPerSecond)

\* Faulty variant: an entry at its expiry instant still served.
IsExpiredStrict(ttl) == ttl < 0

\* cacheGet: if ttl <= 0
IsExpired(ttl) == ttl <= 0

----
\* Slices.  A []Answer is the address of its backing array; address 0 is the
\* nil slice.  Addresses no variable refers to any more are collected.

NilSlice == 0

AnswersAt(h, a) == IF a = NilSlice THEN <<>> ELSE h[a]

Alloc(h) ==
    CHOOSE a \in 1..(Cardinality(DOMAIN h) + 1) :
        a \notin DOMAIN h /\ \A b \in 1..(a - 1) : b \in DOMAIN h

NoEntry == [answer |-> NilSlice, expired |-> 0]

Live(c, l, r) ==
    ({c[k].answer : k \in DOMAIN c}
        \union {l[p].cached.answer : p \in Procs}
        \union {l[p].ans : p \in Procs}
        \union {r[p].addr : p \in Procs}) \ {NilSlice}

Collect(h, c, l, r) == [a \in (DOMAIN h) \intersect Live(c, l, r) |-> h[a]]

----
\* The upstream handles: any list of minLen to maxLen records for the
\* question, each with a TTL of its own between minTTL and maxTTL.

UpstreamAnswers(name, qtype, minLen, maxLen, minTTL, maxTTL) ==
    {[i \in 1..n |-> [Name |-> name, Type |-> qtype, TTL |-> ttls[i],
                      Data |-> "rr" \o ToString(i)]] :
        n \in minLen..maxLen, ttls \in [1..maxLen -> minTTL..maxTTL]}

----
\* Per-goroutine state.

\* What the history keeps for a key: the clock reading and the answers of the
\* last cacheSet that stored an entry, whether a cacheGet has evicted that
\* entry since, whether the last upstream result for the key was empty, the
\* ttl the last cache hit on the entry reported (0: no hit yet), the goroutine
\* whose cacheSet stored last (by), and whether that cacheSet replaced a fresh
\* entry by one that expires earlier (early).
NoHist == [t |-> 0, answers |-> <<>>, evicted |-> FALSE, empty |-> FALSE, served |-> 0,
           by |-> None, early |-> FALSE]

HistOf(h, k) == IF k \in DOMAIN h THEN h[k] ELSE NoHist

\* The locals of Query, cacheGet and cacheSet.  cget is the outcome of the
\* call's cacheGet, tget the clock it went by, cexp the expiry of the entry
\* it loaded, prev the history of the key when the cacheGet looked it up,
\* invoked the number of calls of the upstream, asked the arguments of the
\* last of them and up the list it returned.
InitLoc == [arg |-> <<>>, name |-> <<>>, qtype |-> 0, key |-> <<>>,
            cached |-> NoEntry, ttl |-> 0, idx |-> 0, cli |-> NoClient,
            ans |-> NilSlice, expired |-> 0, tset |-> 0, cexp |-> 0,
            tget |-> 0, cget |-> "none", invoked |-> 0, prev |-> NoHist,
            asked |-> <<>>, up |-> <<>>]

\* A finished call: its arguments, how it was answered (src), the slice it
\* returned (addr) with the answers the slice held on return (val), and the
\* locals it ended with.
InitRes == [src |-> "none", addr |-> NilSlice, val |-> <<>>, l |-> InitLoc]

Returned(l, src, addr, h) == [src |-> src, addr |-> addr, val |-> AnswersAt(h, addr), l |-> l]

----
\* DNSClient.Query, step by step.  Every step is one access to the shared
\* cache, to a shared backing array or to the clock, together with the local
\* computation that follows it.

\* Faulty variant: the nil check left out, a nil dnsClient is called.
AfterMissUnchecked(p, l) ==
    LET cli == Route(router, l.name)
    IN  /\ pc' = [pc EXCEPT ![p] = IF cli = NoClient THEN "panic" ELSE "upstream"]
        /\ loc' = [loc EXCEPT ![p] = [l EXCEPT !.cli = cli]]
        /\ res' = res

\* Query after a cache miss: route the name; without a route return nil.
AfterMiss(p, l) ==
    LET cli == Route(router, l.name)
    IN  IF cli = NoClient
        THEN /\ pc' = [pc EXCEPT ![p] = "idle"]
             /\ loc' = [loc EXCEPT ![p] = InitLoc]
             /\ res' = [res EXCEPT ![p] = Returned(l, "noroute", NilSlice, heap)]
        ELSE /\ pc' = [pc EXCEPT ![p] = "upstream"]
             /\ loc' = [loc EXCEPT ![p] = [l EXCEPT !.cli = cli]]
             /\ res' = res

\* Faulty variant: the static answer is put into the cache as an upstream's
\* answer would be.
StartQueryCaching(p, arg, qtype, keep) ==
    /\ pc[p] = "idle"
    /\ LET name == Fqdn(arg)
           st == StaticLookup(staticIpV4, staticIpV6, name, qtype)
           l == [InitLoc EXCEPT !.arg = arg, !.name = name, !.qtype = qtype]
       IN  IF st.found
           THEN LET a == Alloc(heap)
                    h == Put(heap, a, StaticAnswer(name, qtype, st.ip))
                IN  /\ res' = [res EXCEPT ![p] = Returned(l, "static", a, h)]
                    /\ cache' = Put(cache, CacheKey(name, qtype),
                                    [answer |-> a, expired |-> Expiry(now, StaticTTL)])
                    /\ heap' = Collect(h, cache', loc, res')
                    /\ UNCHANGED <<pc, loc>>
           ELSE /\ pc' = [pc EXCEPT ![p] = "load"]
                /\ loc' = [loc EXCEPT ![p] = [l EXCEPT !.key = CacheKey(name, qtype)]]
                /\ res' = IF keep THEN res ELSE [res EXCEPT ![p] = InitRes]
                /\ heap' = Collect(heap, cache, loc', res')
                /\ cache' = cache
    /\ UNCHANGED <<now, staticIpV4, staticIpV6, router, hist>>

\* Query up to the cache lookup: normalise the name, answer from the static
\* tables when they have the name for this record type.  keep says whether
\* the caller still holds the list its previous call returned.
StartQuery(p, arg, qtype, keep) ==
    /\ pc[p] = "idle"
    /\ LET name == Fqdn(arg)
           st == StaticLookup(staticIpV4, staticIpV6, name, qtype)
           l == [InitLoc EXCEPT !.arg = arg, !.name = name, !.qtype = qtype]
       IN  IF st.found
           THEN LET a == Alloc(heap)
                    h == Put(heap, a, StaticAnswer(name, qtype, st.ip))
                IN  /\ res' = [res EXCEPT ![p] = Returned(l, "static", a, h)]
                    /\ heap' = Collect(h, cache, loc, res')
                    /\ UNCHANGED <<pc, loc>>
           ELSE /\ pc' = [pc EXCEPT ![p] = "load"]
                /\ loc' = [loc EXCEPT ![p] = [l EXCEPT !.key = CacheKey(name, qtype)]]
                /\ res' = IF keep THEN res ELSE [res EXCEPT ![p] = InitRes]
                /\ heap' = Collect(heap, cache, loc', res')
    /\ UNCHANGED <<now, cache, staticIpV4, staticIpV6, router, hist>>

\* Faulty variant: the lookup waits while another goroutine is asking the
\* upstream for the same key, as a per-key lock around Query would make it.
LoadSingleFlight(p) ==
    /\ pc[p] = "load"
    /\ \A q \in Procs \ {p} : ~(pc[q] = "upstream" /\ loc[q].key = loc[p].key)
    /\ LET l == [loc[p] EXCEPT !.prev = HistOf(hist, loc[p].key), !.tget = now]
       IN  IF l.key \in DOMAIN cache
           THEN /\ pc' = [pc EXCEPT ![p] = "clock"]
                /\ loc' = [loc EXCEPT ![p] = [l EXCEPT !.cached = cache[l.key],
                                                !.cexp = cache[l.key].expired]]
                /\ UNCHANGED <<res, heap>>
           ELSE /\ AfterMiss(p, [l EXCEPT !.cget = "absent"])
                /\ heap' = Collect(heap, cache, loc', res')
    /\ UNCHANGED <<now, cache, staticIpV4, staticIpV6, router, calls, hist>>

\* cacheGet: val, found := c.cache.Load(key).  Only cacheSet stores into the
\* cache, so the value is always a *dnsCached and the !ok branch is dead.
Load(p) ==
    /\ pc[p] = "load"
    /\ LET l == [loc[p] EXCEPT !.prev = HistOf(hist, loc[p].key), !.tget = now]
       IN  IF l.key \in DOMAIN cache
           THEN /\ pc' = [pc EXCEPT ![p] = "clock"]
                /\ loc' = [loc EXCEPT ![p] = [l EXCEPT !.cached = cache[l.key],
                                                !.cexp = cache[l.key].expired]]
                /\ UNCHANGED <<res, heap>>
           ELSE /\ AfterMiss(p, [l EXCEPT !.cget = "absent"])
                /\ heap' = Collect(heap, cache, loc', res')
    /\ UNCHANGED <<now, cache, staticIpV4, staticIpV6, router, calls, hist>>

\* cacheGet: read the clock, compute the remaining ttl.
Clock(p) ==
    /\ pc[p] = "clock"
    /\ LET ttl == RemainingTTL(loc[p].cached.expired, now)
           l == [loc[p] EXCEPT !.ttl = ttl, !.tget = now]
       IN  IF IsExpired(ttl)
           THEN /\ pc' = [pc EXCEPT ![p] = "delete"]
                /\ loc' = [loc EXCEPT ![p] = [l EXCEPT !.cget = "expired"]]
           ELSE /\ pc' = [pc EXCEPT ![p] = "write"]
                /\ loc' = [loc EXCEPT ![p] = [l EXCEPT !.cget = "hit", !.idx = 1]]
    /\ UNCHANGED <<now, cache, heap, staticIpV4, staticIpV6, router, res, calls, hist>>

\* cacheGet: c.cache.Delete(key), then Query goes on as after any miss.
Delete(p) ==
    /\ pc[p] = "delete"
    /\ cache' = Remove(cache, loc[p].key)
    /\ hist' = Put(hist, loc[p].key, [NoHist EXCEPT !.evicted = TRUE])
    /\ AfterMiss(p, [loc[p] EXCEPT !.cached = NoEntry])
    /\ heap' = Collect(heap, cache', loc', res')
    /\ UNCHANGED <<now, staticIpV4, staticIpV6, router, calls>>

\* cacheGet: cached.answer[idx].TTL = ttl, one element per step; after the
\* last one cacheGet returns cached.answer and Query returns it.
Write(p) ==
    /\ pc[p] = "write"
    /\ LET l == loc[p]
           a == l.cached.answer
           h == [heap EXCEPT ![a][l.idx].TTL = l.ttl]
       IN  IF l.idx < Len(heap[a])
           THEN /\ loc' = [loc EXCEPT ![p].idx = l.idx + 1]
                /\ heap' = h
                /\ UNCHANGED <<pc, res, hist>>
           ELSE /\ pc' = [pc EXCEPT ![p] = "idle"]
                /\ loc' = [loc EXCEPT ![p] = InitLoc]
                /\ res' = [res EXCEPT ![p] = Returned(l, "cache", a, h)]
                /\ hist' = Put(hist, l.key, [HistOf(hist, l.key) EXCEPT !.served = l.ttl])
                /\ heap' = Collect(h, cache, loc', res')
    /\ UNCHANGED <<now, cache, staticIpV4, staticIpV6, router, calls>>

\* ans := cli(name, qtype): the upstream returns a list of its choosing in a
\* slice of its own.
Upstream(p, minLen, maxLen, minTTL, maxTTL) ==
    /\ pc[p] = "upstream"
    /\ \E answer \in UpstreamAnswers(loc[p].name, loc[p].qtype,
                                      minLen, maxLen, minTTL, maxTTL) :
          LET a == IF answer = <<>> THEN NilSlice ELSE Alloc(heap)
          IN  /\ loc' = [loc EXCEPT ![p].ans = a, ![p].invoked = @ + 1,
                                     ![p].asked = <<loc[p].name, loc[p].qtype>>,
                                     ![p].up = answer]
              /\ heap' = IF a = NilSlice THEN heap ELSE Put(heap, a, answer)
    /\ pc' = [pc EXCEPT ![p] = "cacheSet"]
    /\ UNCHANGED <<now, cache, staticIpV4, staticIpV6, router, res, calls, hist>>

\* cacheSet up to time.Now(): return at once for an empty list (and Query
\* returns ans), else take the minimum ttl and compute the expiry.
CacheSetClock(p) ==
    /\ pc[p] = "cacheSet"
    /\ LET l == loc[p]
           answer == AnswersAt(heap, l.ans)
       IN  IF CacheSetSkips(answer)
           THEN /\ pc' = [pc EXCEPT ![p] = "idle"]
                /\ loc' = [loc EXCEPT ![p] = InitLoc]
                /\ res' = [res EXCEPT ![p] = Returned(l, "upstream", l.ans, heap)]
                /\ hist' = Put(hist, l.key, [HistOf(hist, l.key) EXCEPT !.empty = TRUE])
                /\ heap' = Collect(heap, cache, loc', res')
           ELSE IF Len(answer) = 0
           THEN \* answer[0] of an empty slice: index out of range
                /\ pc' = [pc EXCEPT ![p] = "panic"]
                /\ UNCHANGED <<loc, res, hist, heap>>
           ELSE /\ pc' = [pc EXCEPT ![p] = "store"]
                /\ loc' = [loc EXCEPT ![p] = [l EXCEPT !.tset = now,
                                                !.expired = Expiry(now, MinTTL(answer))]]
                /\ UNCHANGED <<res, hist, heap>>
    /\ UNCHANGED <<now, cache, staticIpV4, staticIpV6, router, calls>>

\* The entry cacheSet builds, and whether storing it at time t replaces a
\* fresh entry by one that expires earlier.
EntryOf(l) == [answer |-> l.ans, expired |-> l.expired]

ReplacesEarlier(c, l, t) ==
    /\ l.key \in DOMAIN c
    /\ c[l.key].expired > t
    /\ l.expired < c[l.key].expired

\* Faulty variant: a fresh entry that expires later than the new one is kept.
StoreKeepLater(p) ==
    /\ pc[p] = "store"
    /\ LET l == loc[p]
       IN  /\ cache' = IF ReplacesEarlier(cache, l, now) THEN cache
                                                          ELSE Put(cache, l.key, EntryOf(l))
           /\ hist' = Put(hist, l.key, [NoHist EXCEPT !.t = l.tset,
                                                      !.answers = heap[l.ans],
                                                      !.by = p,
                                                      !.early = ReplacesEarlier(cache, l, now)])
           /\ pc' = [pc EXCEPT ![p] = "idle"]
           /\ loc' = [loc EXCEPT ![p] = InitLoc]
           /\ res' = [res EXCEPT ![p] = Returned(l, "upstream", l.ans, heap)]
           /\ heap' = Collect(heap, cache', loc', res')
    /\ UNCHANGED <<now, staticIpV4, staticIpV6, router, calls>>

\* Faulty variant: the entry is stored only when the key has none, as
\* LoadOrStore would.
StoreIfAbsent(p) ==
    /\ pc[p] = "store"
    /\ LET l == loc[p]
       IN  /\ cache' = IF l.key \in DOMAIN cache THEN cache ELSE Put(cache, l.key, EntryOf(l))
           /\ hist' = Put(hist, l.key, [NoHist EXCEPT !.t = l.tset,
                                                      !.answers = heap[l.ans],
                                                      !.by = p,
                                                      !.early = ReplacesEarlier(cache, l, now)])
           /\ pc' = [pc EXCEPT ![p] = "idle"]
           /\ loc' = [loc EXCEPT ![p] = InitLoc]
           /\ res' = [res EXCEPT ![p] = Returned(l, "upstream", l.ans, heap)]
           /\ heap' = Collect(heap, cache', loc', res')
    /\ UNCHANGED <<now, staticIpV4, staticIpV6, router, calls>>

\* cacheSet: c.cache.Store(key, &val), then Query returns ans.
Store(p) ==
    /\ pc[p] = "store"
    /\ LET l == loc[p]
       IN  /\ cache' = Put(cache, l.key, EntryOf(l))
           /\ hist' = Put(hist, l.key, [NoHist EXCEPT !.t = l.tset,
                                                      !.answers = heap[l.ans],
                                                      !.by = p,
                                                      !.early = ReplacesEarlier(cache, l, now)])
           /\ pc' = [pc EXCEPT ![p] = "idle"]
           /\ loc' = [loc EXCEPT ![p] = InitLoc]
           /\ res' = [res EXCEPT ![p] = Returned(l, "upstream", l.ans, heap)]
           /\ heap' = Collect(heap, cache', loc', res')
    /\ UNCHANGED <<now, staticIpV4, staticIpV6, router, calls>>

\* Time passes.
Tick(maxTime) ==
    /\ now < maxTime
    /\ now' = now + 1
    /\ UNCHANGED <<cache, heap, staticIpV4, staticIpV6, router, pc, loc, res, calls, hist>>

----
\* The calls made.

\* A goroutine that makes at most MaxCalls calls, and one that goes on calling.
Counted(p) ==
    /\ calls[p] < MaxCalls
    /\ calls' = [calls EXCEPT ![p] = @ + 1]

Uncounted(p) == UNCHANGED calls

\* Goroutines that make at most ConcCalls calls between them.
RECURSIVE Total(_, _)
Total(f, S) == IF S = {} THEN 0 ELSE LET x == CHOOSE y \in S : TRUE IN f[x] + Total(f, S \ {x})

Shared(p) ==
    /\ Total(calls, Procs) < ConcCalls
    /\ calls' = [calls EXCEPT ![p] = @ + 1]

\* Questions that between them take every branch of Query: names with an
\* override of one family only, with and without a route, written with and
\* without the trailing dot, in lower case and in upper case.
Questions == {
    <<V4ExampleCom, TypeA>>, <<V4ExampleCom, TypeAAAA>>,
    <<V6OtherComFq, TypeAAAA>>, <<V6OtherComFq, TypeA>>,
    <<ExampleCom, TypeA>>, <<ExampleComFq, TypeA>>, <<ExampleComUpper, TypeA>>,
    <<XMailExampleComFq, TypeMX>>, <<OtherComFq, TypeA>>
}

\* The one question the runs about the cache keep asking.
CacheQuestion == <<ExampleCom, TypeMX>>

\* A call of Query by a goroutine of each kind.
AskCounted(p) == \E q \in Questions : StartQuery(p, q[1], q[2], FALSE) /\ Counted(p)

AskAgain(p) == StartQuery(p, CacheQuestion[1], CacheQuestion[2], FALSE) /\ Uncounted(p)

AskShared(p) == StartQuery(p, CacheQuestion[1], CacheQuestion[2], FALSE) /\ Shared(p)

\* Two questions with a cache key each.
PairQuestions == {CacheQuestion, <<XMailExampleComFq, TypeMX>>}

AskPair(p) == \E q \in PairQuestions : StartQuery(p, q[1], q[2], FALSE) /\ Shared(p)

Init ==
    /\ now = 0
    /\ cache = EmptyMap
    /\ heap = EmptyMap
    /\ LET c == InitClient(ZeroClient, Forwards)
       IN  /\ staticIpV4 = c.staticIpV4
           /\ staticIpV6 = c.staticIpV6
           /\ router = c.router
    /\ pc = [p \in Procs |-> "idle"]
    /\ loc = [p \in Procs |-> InitLoc]
    /\ res = [p \in Procs |-> InitRes]
    /\ calls = [p \in Procs |-> 0]
    /\ hist = EmptyMap

\* One goroutine asking up to MaxCalls of the Questions, one call after the
\* other; the upstreams answer with up to RouteMaxAnswers records, all of
\* ttl RouteTTL.
Next ==
    \/ Tick(MaxTime)
    \/ \E p \in SeqProcs :
          \/ AskCounted(p)
          \/ Load(p)
          \/ Clock(p)
          \/ Delete(p)
          \/ Write(p)
          \/ Upstream(p, 0, RouteMaxAnswers, RouteTTL, RouteTTL)
          \/ CacheSetClock(p)
          \/ Store(p)

Spec == Init /\ [][Next]_vars

\* One goroutine asking the CacheQuestion again and again.
NextCache ==
    \/ Tick(MaxTime)
    \/ \E p \in SeqProcs :
          \/ AskAgain(p)
          \/ Load(p)
          \/ Clock(p)
          \/ Delete(p)
          \/ Write(p)
          \/ Upstream(p, 0, MaxAnswers, 0, MaxTTL)
          \/ CacheSetClock(p)
          \/ Store(p)

SpecCache == Init /\ [][NextCache]_vars

\* Two goroutines asking the CacheQuestion concurrently, ConcCalls times in
\* all; the upstream answers with at least one record, of a positive TTL.
NextConc ==
    \/ Tick(ConcMaxTime)
    \/ \E p \in ConcProcs :
          \/ AskShared(p)
          \/ Load(p)
          \/ Clock(p)
          \/ Delete(p)
          \/ Write(p)
          \/ Upstream(p, 1, MaxAnswers, 1, MaxTTL)
          \/ CacheSetClock(p)
          \/ Store(p)

SpecConc == Init /\ [][NextConc]_vars

\* Two goroutines asking the PairQuestions concurrently, ConcCalls times in
\* all; the upstreams answer with RouteMaxAnswers records of ttl RouteTTL.
NextPair ==
    \/ Tick(ConcMaxTime)
    \/ \E p \in ConcProcs :
          \/ AskPair(p)
          \/ Load(p)
          \/ Clock(p)
          \/ Delete(p)
          \/ Write(p)
          \/ Upstream(p, RouteMaxAnswers, RouteMaxAnswers, RouteTTL, RouteTTL)
          \/ CacheSetClock(p)
          \/ Store(p)

SpecPair == Init /\ [][NextPair]_vars

\* The steps of Query that are the goroutine's own code: none of them blocks,
\* and the Go scheduler runs every runnable goroutine.
OwnStep(p) ==
    \/ Load(p)
    \/ Clock(p)
    \/ Delete(p)
    \/ Write(p)
    \/ CacheSetClock(p)
    \/ Store(p)

\* Goroutines that make at most LiveCalls calls between them.
SharedLive(p) ==
    /\ Total(calls, Procs) < LiveCalls
    /\ calls' = [calls EXCEPT ![p] = @ + 1]

AskLive(p) == \E q \in PairQuestions : StartQuery(p, q[1], q[2], FALSE) /\ SharedLive(p)

NextLive ==
    \/ Tick(ConcMaxTime)
    \/ \E p \in ConcProcs :
          \/ AskLive(p)
          \/ OwnStep(p)
          \/ Upstream(p, RouteMaxAnswers, RouteMaxAnswers, RouteTTL, RouteTTL)

\* Two goroutines asking the PairQuestions under that scheduler, where the
\* upstream asked by g1 always returns and the upstream asked by g2 may
\* never return.
SpecLive ==
    /\ Init
    /\ [][NextLive]_vars
    /\ \A p \in ConcProcs : WF_vars(OwnStep(p))
    /\ WF_vars(Upstream("g1", RouteMaxAnswers, RouteMaxAnswers, RouteTTL, RouteTTL))

----
\* What the configuration says, read off Forwards without the tables that
\* Init builds from it.

Range(f) == {f[i] : i \in DOMAIN f}

\* The addresses configured for a fully-qualified name under a scheme.
ConfiguredAddrs(scheme, name) ==
    {f.Host : f \in {g \in Range(Forwards) :
                        /\ g.Scheme = scheme
                        /\ \E d \in Range(g.Domain) : Fqdn(d) = name}}

HasOverride(name, qtype) ==
    \/ qtype = TypeA /\ ConfiguredAddrs("ipv4", name) # {}
    \/ qtype = TypeAAAA /\ ConfiguredAddrs("ipv6", name) # {}

AllOverrideAddrs == {f.Host : f \in {g \in Range(Forwards) : g.Scheme \in {"ipv4", "ipv6"}}}

\* The registered domains with their handles.
Registered ==
    UNION {{<<Fqdn(d), ClientOf(f)>> : d \in Range(f.Domain)} :
              f \in {g \in Range(Forwards) : g.Scheme \in {"udp", "doh"}}}

\* d equals n or is n with some leftmost labels taken off.
IsSuffix(d, n) ==
    /\ Len(d) <= Len(n)
    /\ SubSeq(n, Len(n) - Len(d) + 1, Len(n)) = d
    /\ Len(d) < Len(n) => n[Len(n) - Len(d)] = Dot

Matching(name) == {r \in Registered : IsSuffix(r[1], name)}

\* The handles of the longest registered domain that matches the name.
LongestMatch(name) ==
    {r[2] : r \in {m \in Matching(name) : \A o \in Matching(name) : Len(o[1]) <= Len(m[1])}}

\* The goroutine is back from a call.
Done(p) == pc[p] = "idle" /\ res[p].src # "none"

----
\* C1: a Query for A on a name with a static IPv4 entry, or for AAAA on a
\* name with a static IPv6 entry, returns exactly one answer: the
\* fully-qualified name, the record type, a ttl of 60 and the configured
\* address, whether or not a route matches the name.
C1_StaticOverrideAnswers ==
    \A p \in SeqProcs :
        Done(p) =>
            LET l == res[p].l
                name == Fqdn(l.arg)
                scheme == IF l.qtype = TypeA THEN "ipv4" ELSE "ipv6"
            IN  HasOverride(name, l.qtype) =>
                    \E ip \in ConfiguredAddrs(scheme, name) :
                        res[p].val = <<[Name |-> name, Type |-> l.qtype,
                                        TTL |-> 60, Data |-> ip]>>

\* An A query for the name with the IPv4 entry, which a route matches too,
\* has been answered from the entry.
C1_Witness ==
    \E p \in SeqProcs :
        /\ Done(p)
        /\ res[p].l.arg = V4ExampleCom
        /\ res[p].l.qtype = TypeA
        /\ Matching(Fqdn(res[p].l.arg)) # {}
        /\ res[p].src = "static"
        /\ res[p].val[1].Data = "10.0.0.1"

\* C2: a Query whose record type has no override for the name (AAAA with an
\* IPv4 entry only, A with an IPv6 entry only, any other type) is not
\* answered from an override: it looks the key up in the cache, and when
\* that misses it goes on to routing.
C2_OverrideOwnTypeOnly ==
    \A p \in SeqProcs :
        Done(p) =>
            LET l == res[p].l
            IN  ~HasOverride(Fqdn(l.arg), l.qtype) =>
                    /\ res[p].src \in {"cache", "upstream", "noroute"}
                    /\ l.cget \in {"hit", "absent", "expired"}
                    /\ l.cget = "hit" <=> res[p].src = "cache"
                    /\ res[p].src = "noroute" <=> (l.cget # "hit" /\ Matching(Fqdn(l.arg)) = {})
                    /\ \A i \in DOMAIN res[p].val : res[p].val[i].Data \notin AllOverrideAddrs

\* An AAAA query for the name that has an IPv4 entry only went to the
\* upstream of its route.
C2_Witness ==
    \E p \in SeqProcs :
        /\ Done(p)
        /\ res[p].l.arg = V4ExampleCom
        /\ res[p].l.qtype = TypeAAAA
        /\ ConfiguredAddrs("ipv4", Fqdn(res[p].l.arg)) # {}
        /\ res[p].src = "upstream"
        /\ res[p].l.cget = "absent"

\* C8: a Query with no override for its type, no fresh cache entry and no
\* registered domain matching the name returns the empty list as a normal
\* result, has not called an upstream and leaves no entry under its key; no
\* goroutine panics.
C8_NoRouteIsEmptyResult ==
    \A p \in SeqProcs :
        /\ pc[p] # "panic"
        /\ Done(p) =>
            LET l == res[p].l
            IN  (/\ ~HasOverride(Fqdn(l.arg), l.qtype)
                 /\ l.cget # "hit"
                 /\ Matching(Fqdn(l.arg)) = {}) =>
                    /\ res[p].src = "noroute"
                    /\ res[p].val = <<>>
                    /\ res[p].addr = NilSlice
                    /\ l.invoked = 0
                    /\ CacheKey(Fqdn(l.arg), l.qtype) \notin DOMAIN cache

\* A query for a name nothing is registered for came back empty.
C8_Witness ==
    \E p \in SeqProcs :
        /\ Done(p)
        /\ res[p].l.arg = OtherComFq
        /\ res[p].src = "noroute"
        /\ res[p].val = <<>>

\* C9: the handle a Query calls is the one registered for the longest
\* registered domain that equals the name or is a label-wise suffix of it,
\* and a Query finds no route exactly when no registered domain matches;
\* with "example.com." and "mail.example.com." registered,
\* "x.mail.example.com." routes to the latter's handle, "example.com." to
\* the former's and "other.com." to none.
C9_LongestSuffixRoute ==
    /\ Route(router, XMailExampleComFq) = DohClient
    /\ Route(router, MailExampleComFq) = DohClient
    /\ Route(router, ExampleComFq) = UdpClient
    /\ Route(router, OtherComFq) = NoClient
    /\ \A p \in SeqProcs :
        /\ pc[p] \in {"upstream", "cacheSet", "store"} =>
              loc[p].cli \in LongestMatch(Fqdn(loc[p].arg))
        /\ Done(p) /\ res[p].src = "upstream" =>
              res[p].l.cli \in LongestMatch(Fqdn(res[p].l.arg))
        /\ Done(p) /\ res[p].src = "noroute" =>
              Matching(Fqdn(res[p].l.arg)) = {}

\* A query for "x.mail.example.com." is at the upstream registered for
\* "mail.example.com.", though "example.com." matches as well.
C9_Witness ==
    \E p \in SeqProcs :
        /\ pc[p] = "upstream"
        /\ loc[p].name = XMailExampleComFq
        /\ Cardinality(Matching(loc[p].name)) = 2
        /\ loc[p].cli = DohClient

----
\* The cache claims, for a single goroutine that keeps asking one question.

\* The least ttl of a non-empty answer list.
MinOf(answers) ==
    CHOOSE m \in {answers[i].TTL : i \in DOMAIN answers} :
        \A i \in DOMAIN answers : m <= answers[i].TTL

\* The locals of the goroutine's running call, or of its last one.
LocalsOf(p) == IF pc[p] = "idle" THEN res[p].l ELSE loc[p]

\* C3: after a routed Query stored a non-empty answer set of least ttl m, a
\* Query for the same key whose cache lookup comes less than m seconds after
\* that cacheSet read the clock is answered from the cache and calls no
\* upstream.
C3_FreshEntryServedFromCache ==
    \A p \in SeqProcs :
        LET l == LocalsOf(p)
        IN  (/\ l.cget # "none"
             /\ l.prev.answers # <<>>
             /\ l.tget < l.prev.t + MinOf(l.prev.answers) * TicksPerSecond) =>
                /\ l.cget = "hit"
                /\ l.invoked = 0
                /\ pc[p] \in {"clock", "write", "idle"}
                /\ Done(p) => res[p].src = "cache"

\* A Query was served from the cache in the last half second of the entry's
\* lifetime.
C3_Witness ==
    \E p \in SeqProcs :
        /\ Done(p)
        /\ res[p].src = "cache"
        /\ res[p].l.prev.answers # <<>>
        /\ res[p].l.tget > res[p].l.prev.t
        /\ res[p].l.tget + 1 =
              res[p].l.prev.t + MinOf(res[p].l.prev.answers) * TicksPerSecond

\* C4: a cacheGet that finds the entry's remaining lifetime at or below 0,
\* the expiry instant included, reports not-found and removes the entry;
\* the next cacheGet with no cacheSet in between finds no entry; a cache hit
\* never carries a ttl <= 0.
C4_ExpiredEntryEvicted ==
    \A p \in SeqProcs :
        LET l == LocalsOf(p)
        IN  /\ l.cget \in {"hit", "expired"} =>
                  (l.cget = "expired" <=> l.cexp - l.tget <= 0)
            /\ (l.cget = "expired" /\ pc[p] \in {"upstream", "cacheSet", "store"}) =>
                  l.key \notin DOMAIN cache
            /\ (l.cget = "expired" /\ Done(p)) =>
                  /\ res[p].src # "cache"
                  /\ res[p].val = <<>> => l.key \notin DOMAIN cache
            /\ (l.cget # "none" /\ l.prev.evicted) => l.cget = "absent"
            /\ (Done(p) /\ res[p].src = "cache") =>
                  \A i \in DOMAIN res[p].val : res[p].val[i].TTL >= 1

\* A cacheGet exactly at the expiry instant of a positive-ttl entry evicted
\* it, and the call ended with no entry under the key.
C4_Witness ==
    \E p \in SeqProcs :
        /\ Done(p)
        /\ res[p].l.cget = "expired"
        /\ res[p].l.cexp = res[p].l.tget
        /\ res[p].l.prev.answers # <<>>
        /\ MinOf(res[p].l.prev.answers) >= 1
        /\ res[p].l.key \notin DOMAIN cache

\* C5: the entry a cacheSet stores expires min(ttl over all answers) seconds
\* after the cacheSet read the clock, wherever the minimum stands in the
\* list; a cache hit within the same second reports that minimum as the ttl
\* of every answer.
C5_MinTTLExpiry ==
    /\ \A k \in DOMAIN cache :
          /\ k \in DOMAIN hist
          /\ hist[k].answers # <<>>
          /\ cache[k].expired = hist[k].t + MinOf(hist[k].answers) * TicksPerSecond
    /\ \A p \in SeqProcs :
          (/\ Done(p)
           /\ res[p].src = "cache"
           /\ res[p].l.tget - res[p].l.prev.t < TicksPerSecond) =>
              \A i \in DOMAIN res[p].val :
                  res[p].val[i].TTL = MinOf(res[p].l.prev.answers)

\* A hit at the instant of the cacheSet, on a list whose last answer has the
\* least ttl, reported that ttl for every answer.
C5_Witness ==
    \E p \in SeqProcs :
        /\ Done(p)
        /\ res[p].src = "cache"
        /\ res[p].l.tget = res[p].l.prev.t
        /\ Len(res[p].l.prev.answers) = 2
        /\ res[p].l.prev.answers[1].TTL > res[p].l.prev.answers[2].TTL
        /\ \A i \in DOMAIN res[p].val : res[p].val[i].TTL = res[p].l.prev.answers[2].TTL

\* C6: a cacheSet with an empty list returns at once and leaves the whole
\* cache as it was; after a Query whose upstream returned nothing the key
\* has no entry, and the next Query for the key calls the upstream again.
C6_EmptyAnswerNotCached ==
    /\ [][\A p \in SeqProcs :
            (/\ pc[p] = "cacheSet"
             /\ pc'[p] # "cacheSet"
             /\ AnswersAt(heap, loc[p].ans) = <<>>) =>
                /\ cache' = cache
                /\ pc'[p] = "idle"
                /\ res'[p].val = <<>>]_vars
    /\ [](\A p \in SeqProcs :
            LET l == LocalsOf(p)
            IN  /\ (Done(p) /\ res[p].src = "upstream" /\ res[p].val = <<>>) =>
                      l.key \notin DOMAIN cache
                /\ (l.cget # "none" /\ l.prev.empty) =>
                      /\ l.cget = "absent"
                      /\ Done(p) => (res[p].src = "upstream" /\ l.invoked = 1))

\* A Query went to the upstream again right after one that got no answers.
C6_Witness ==
    \E p \in SeqProcs :
        /\ Done(p)
        /\ res[p].l.prev.empty
        /\ res[p].l.invoked = 1
        /\ res[p].src = "upstream"

\* C7: a cache hit returns the stored answers (same records, same order)
\* with every ttl set to the remaining lifetime rounded up to whole seconds:
\* at least 1, at most the least ttl the entry was stored with, and no
\* larger than the ttl the previous hit on the entry reported.
C7_HitReportsRemainingTTL ==
    \A p \in SeqProcs :
        (Done(p) /\ res[p].src = "cache") =>
            LET l == res[p].l
                val == res[p].val
            IN  /\ l.key \in DOMAIN cache
                /\ res[p].addr = cache[l.key].answer
                /\ heap[res[p].addr] = val
                /\ Len(val) = Len(l.prev.answers)
                /\ \E ttl \in 1..MinOf(l.prev.answers) :
                      /\ (ttl - 1) * TicksPerSecond < l.cexp - l.tget
                      /\ l.cexp - l.tget <= ttl * TicksPerSecond
                      /\ l.prev.served > 0 => ttl <= l.prev.served
                      /\ \A i \in DOMAIN val :
                            val[i] = [l.prev.answers[i] EXCEPT !.TTL = ttl]

\* A second hit on an entry reported a smaller ttl than the first, rounded
\* up from a remainder that is no whole number of seconds.
C7_Witness ==
    \E p \in SeqProcs :
        /\ Done(p)
        /\ res[p].src = "cache"
        /\ Len(res[p].val) = 2
        /\ res[p].l.prev.served > res[p].val[1].TTL
        /\ res[p].val[1].TTL * TicksPerSecond > res[p].l.cexp - res[p].l.tget

----
\* The concurrency claims, for two goroutines asking the same question.

\* The goroutine's next step is the assignment cached.answer[idx].TTL = ttl
\* on element i of the backing array a.
WritesTTL(p, a, i) ==
    /\ pc[p] = "write"
    /\ loc[p].cached.answer = a
    /\ loc[p].idx = i

\* C10: the cache is safe for concurrent callers: at no moment are two
\* goroutines about to access the ttl field of the same stored answer with
\* one of them writing it and nothing ordering the two accesses.
C10_NoDataRace ==
    \A p, q \in ConcProcs :
        p # q =>
            \A a \in DOMAIN heap :
                \A i \in DOMAIN heap[a] : ~(WritesTTL(p, a, i) /\ WritesTTL(q, a, i))

----
\* Letter case.  DNS names compare without regard to case; the labels of the
\* model have one spelling in capitals.

Lower(token) == IF token = "EXAMPLE" THEN "example" ELSE token

\* A name or a cache key with every letter in lower case.
Fold(s) == [i \in DOMAIN s |-> Lower(s[i])]

\* C11: the cache key is the fully-qualified, case-folded name with the
\* record type, one entry per key: names that differ only in letter case or
\* in the trailing dot share one entry, so no two entries of the cache are
\* for the same folded key and every lookup goes by the folded key.
C11_OneEntryPerFoldedName ==
    /\ \A k1, k2 \in DOMAIN cache : Fold(k1) = Fold(k2) => k1 = k2
    /\ \A p \in SeqProcs :
          LET l == LocalsOf(p)
          IN  l.cget # "none" => l.key = Fold(Fqdn(l.arg)) \o <<"|", ToString(l.qtype)>>

----
\* C12: a Query that misses the overrides and the cache and finds a route
\* calls the routed upstream exactly once, with the fully-qualified name and
\* the record type, hands the result to cacheSet under the key of that name
\* and type, and returns the upstream's list as it is: the same answers in
\* the same order with the ttl values the upstream reported.
C12_MissAsksUpstreamOnce ==
    \A p \in SeqProcs :
        Done(p) /\ res[p].src = "upstream" =>
            LET l == res[p].l
                name == Fqdn(l.arg)
                key == name \o <<"|", ToString(l.qtype)>>
            IN  /\ l.invoked = 1
                /\ l.cli = Route(router, name)
                /\ l.asked = <<name, l.qtype>>
                /\ res[p].val = l.up
                /\ res[p].val # <<>> =>
                      /\ key \in DOMAIN cache
                      /\ cache[key].answer = res[p].addr
                      /\ AnswersAt(heap, cache[key].answer) = l.up

\* A call for a name written without the trailing dot got two answers of
\* different ttl from the upstream.
C12_Witness ==
    \E p \in SeqProcs :
        /\ Done(p)
        /\ res[p].src = "upstream"
        /\ res[p].l.invoked = 1
        /\ res[p].l.arg # Fqdn(res[p].l.arg)
        /\ Len(res[p].val) = 2
        /\ res[p].val[1].TTL # res[p].val[2].TTL

----
\* C13: a Query for a name and record type with a static override is
\* answered in the step that starts it, and that step leaves the cache as it
\* was (no entry created, rewritten or evicted) and calls no upstream.
C13_OverrideLeavesCacheAlone ==
    [][\A p \in SeqProcs :
          calls'[p] # calls[p] =>
              LET l == IF pc'[p] = "idle" THEN res'[p].l ELSE loc'[p]
              IN  HasOverride(Fqdn(l.arg), l.qtype) =>
                      /\ pc'[p] = "idle"
                      /\ res'[p].src = "static"
                      /\ l.invoked = 0
                      /\ cache' = cache
                      /\ \A k \in DOMAIN cache :
                            AnswersAt(heap', cache[k].answer) = AnswersAt(heap, cache[k].answer)
                      /\ hist' = hist]_vars

\* A call was answered from a static table while the cache held an entry.
C13_Witness ==
    \E p \in SeqProcs :
        /\ Done(p)
        /\ res[p].src = "static"
        /\ res[p].l.invoked = 0
        /\ DOMAIN cache # {}

----
\* C14: however concurrent cacheGet calls for one key interleave, the list a
\* cache hit returns has, when it is returned, one and the same ttl in all
\* its answers, the remaining lifetime that call computed.
C14_HitListUniformTTL ==
    \A p \in ConcProcs :
        Done(p) /\ res[p].src = "cache" =>
            \A i \in DOMAIN res[p].val : res[p].val[i].TTL = res[p].l.ttl

----
\* C15: an entry leaves the cache only when its own expiry has passed or
\* when cacheSet replaces it for the same key: no step removes an entry that
\* is still fresh, such as one stored between a cacheGet's load and its
\* delete.
C15_FreshEntryNeverDeleted ==
    [][\A k \in DOMAIN cache :
          k \notin DOMAIN cache' => cache[k].expired <= now]_vars

----
\* C16: Query calls for one key are not coalesced: two concurrent calls for
\* an uncached routed key can each call the upstream and each call cacheSet,
\* and the cache then holds the entry of the cacheSet that ran last.  The
\* formula is the last part, for every run: while the goroutine whose
\* cacheSet stored last still holds what that call returned, the entry under
\* the key is the one that call built.  The witness is the interleaving.
C16_LastCacheSetWins ==
    \A p \in ConcProcs :
        (/\ Done(p)
         /\ res[p].src = "upstream"
         /\ res[p].val # <<>>
         /\ HistOf(hist, res[p].l.key).by = p)
        => /\ res[p].l.key \in DOMAIN cache
           /\ cache[res[p].l.key] = [answer |-> res[p].addr, expired |-> res[p].l.expired]

\* Both goroutines looked the key up before anything was stored under it,
\* both called the upstream and stored its list, and the cache holds the
\* entry of the one that stored last.
C16_Witness ==
    \E p, q \in ConcProcs :
        /\ p # q
        /\ \A g \in {p, q} :
              /\ Done(g)
              /\ res[g].src = "upstream"
              /\ res[g].l.cget = "absent"
              /\ res[g].l.prev = NoHist
              /\ res[g].l.invoked = 1
              /\ res[g].val # <<>>
        /\ res[p].l.key = res[q].l.key
        /\ res[p].addr # res[q].addr
        /\ HistOf(hist, res[q].l.key).by = q
        /\ cache[res[q].l.key].answer = res[q].addr

----
\* C17: the storage of a cached entry's answers belongs to the cache alone:
\* the list a Query returned keeps, for as long as the caller holds it, the
\* ttl values it had when it was returned, whatever calls for the key run
\* afterwards.
C17_ReturnedListKeepsTTL ==
    \A p \in ConcProcs :
        Done(p) /\ res[p].addr # NilSlice =>
            \A i \in DOMAIN res[p].val :
                AnswersAt(heap, res[p].addr)[i].TTL = res[p].val[i].TTL

----
\* C18: cacheSet with a non-empty list replaces whatever entry the key has,
\* answers and expiry both, also when that entry is fresh and the new expiry
\* is the earlier one; the entries under other keys stay as they are.
C18_CacheSetReplaces ==
    [][\A p \in ConcProcs :
          pc[p] = "store" /\ pc'[p] # "store" =>
              LET k == loc[p].key
              IN  /\ DOMAIN cache' = DOMAIN cache \union {k}
                  /\ cache'[k] = [answer |-> loc[p].ans, expired |-> loc[p].expired]
                  /\ AnswersAt(heap', cache'[k].answer) = loc[p].up
                  /\ \A j \in DOMAIN cache \ {k} :
                        /\ cache'[j] = cache[j]
                        /\ AnswersAt(heap', cache[j].answer) = AnswersAt(heap, cache[j].answer)]_vars

\* The last cacheSet for a key replaced a fresh entry by one that expires
\* earlier, and the cache has an entry under another key too.
C18_Witness ==
    \E k, j \in DOMAIN cache :
        /\ j # k
        /\ hist[k].early
        /\ hist[k].by \in ConcProcs
        /\ cache[k].expired = Expiry(hist[k].t, MinOf(hist[k].answers))

----
\* C19: eviction is lazy and per key.  An entry, expired or not, is removed
\* only by a cacheGet for its own key, is replaced only by a cacheSet for its
\* own key and has its answers rewritten only by a cacheGet for its own key:
\* the passage of time and the calls for other keys leave it as it is.
C19_EvictionLazyPerKey ==
    [][\A k \in DOMAIN cache :
          /\ k \notin DOMAIN cache' =>
                \E p \in ConcProcs : pc[p] = "delete" /\ loc[p].key = k /\ pc'[p] # "delete"
          /\ k \in DOMAIN cache' /\ cache'[k] # cache[k] =>
                \E p \in ConcProcs : pc[p] = "store" /\ loc[p].key = k /\ pc'[p] # "store"
          /\ (/\ cache[k].answer \in DOMAIN heap'
              /\ heap'[cache[k].answer] # heap[cache[k].answer]) =>
                \E p \in ConcProcs : pc[p] = "write" /\ loc[p].key = k]_vars

\* A cacheGet has evicted the entry of one key while the entry of another
\* key, expired as well, is still in the cache.
C19_Witness ==
    \E k \in DOMAIN hist, j \in DOMAIN cache :
        /\ k # j
        /\ hist[k].evicted
        /\ k \notin DOMAIN cache
        /\ cache[j].expired <= now

----
\* C20: a Query never waits on another Query.  Every call goes on to its end
\* or to its upstream whatever the other goroutine does, a call whose
\* upstream returns completes, and it does so also while the other goroutine
\* is held for ever inside an upstream that does not return.
C20_QueryNeverWaits ==
    /\ \A p \in ConcProcs :
          (pc[p] \notin {"idle", "upstream"}) ~> (pc[p] \in {"idle", "upstream"})
    /\ (pc["g1"] # "idle") ~> (pc["g1"] = "idle")

\* g2 is inside the upstream since it missed the empty cache; meanwhile g1
\* has asked the upstream for the same key, stored the answer and returned.
C20_Witness ==
    /\ pc["g2"] = "upstream"
    /\ loc["g2"].cget = "absent"
    /\ loc["g2"].prev = NoHist
    /\ Done("g1")
    /\ res["g1"].src = "upstream"
    /\ res["g1"].val # <<>>
    /\ res["g1"].l.key = loc["g2"].key
    /\ HistOf(hist, loc["g2"].key).by = "g1"

====
